---- MODULE Spec2Model ----
(***************************************************************************)
(* The pull request API handler of octocrab (src/api/pulls.rs).            *)
(*                                                                         *)
(* A PullRequestHandler is scoped to one owner/repo pair and carries an    *)
(* optional media type.  Every operation of the handler is a whole action  *)
(* of the model: it formats its route, resolves it, assembles a request,   *)
(* hands it to the transport, and turns the response into a result.  The   *)
(* collaborators an operation calls are recorded, in call order, in the    *)
(* `calls` field of the outcome.                                           *)
(***************************************************************************)
EXTENDS Integers, Sequences, FiniteSets, TLC

VARIABLES handle, last, nInvoked, nResolved, nExecuted

vars == <<handle, last, nInvoked, nResolved, nExecuted>>

(***************************************************************************)
(* Bounds of the model.                                                    *)
(***************************************************************************)
MaxCalls == 2
MaxReviewers == 2
MaxPr == 2

Owners == {"owner"}
Repos == {"repo"}
Names == {"user1", "team1"}
Prs == 1..MaxPr

(***************************************************************************)
(* Option<T>: None is the empty sequence, Some(x) the one-element one.     *)
(***************************************************************************)
None == <<>>
Some(x) == <<x>>
IsSome(o) == Len(o) = 1

(***************************************************************************)
(* crate::Result<T>.  Values and error kinds are strings; `status` is the  *)
(* HTTP status a response or a GitHub error carries (0 when there is none).*)
(***************************************************************************)
Ok(v, s) == [tag |-> "Ok", val |-> v, status |-> s]
Err(k, s) == [tag |-> "Err", val |-> k, status |-> s]
IsOk(r) == r.tag = "Ok"

Bool(b) == IF b THEN "true" ELSE "false"

(***************************************************************************)
(* The environment of one invocation: whether the base-URL collaborator    *)
(* accepts the route, whether the transport delivers a response, the       *)
(* status of that response, and whether its body decodes.                  *)
(***************************************************************************)
Statuses == {200, 202, 204, 401, 403, 404, 500}
Envs == [urlOk : BOOLEAN, transportOk : BOOLEAN, status : Statuses, decodeOk : BOOLEAN]

(***************************************************************************)
(* params::pulls::MediaType and its Display, and crate::format_media_type. *)
(***************************************************************************)
MediaTypes == {"Regular", "Minimal", "Full", "Diff", "Patch"}

to_string(media_type) ==
    CASE media_type = "Regular" -> "regular"
      [] media_type = "Minimal" -> "minimal"
      [] media_type = "Full" -> "full"
      [] media_type = "Diff" -> "diff"
      [] media_type = "Patch" -> "patch"

format_media_type(media_type) == <<"application/vnd.github.v3.", media_type>>

(***************************************************************************)
(* Requests.  A request builder is a record; headers is the sequence of    *)
(* headers added so far, query and body are Options.                       *)
(***************************************************************************)
ACCEPT == "accept"

client_request(method, url) ==
    [method |-> method, url |-> url, headers |-> <<>>, query |-> None, body |-> None]

header(request, name, value) ==
    [request EXCEPT !.headers = Append(@, <<name, value>>)]

query(request, parameters) == [request EXCEPT !.query = Some(parameters)]

json(request, body) == [request EXCEPT !.body = Some(body)]

(***************************************************************************)
(* Octocrab::absolute_url: the base-URL collaborator.                      *)
(***************************************************************************)
BaseUrl == "https://api.github.com/"

absolute_url(route, env) ==
    IF env.urlOk THEN Ok(<<BaseUrl>> \o route, 0) ELSE Err("Url", 0)

(***************************************************************************)
(* Octocrab::execute: the transport.  A response or a transport error.     *)
(***************************************************************************)
execute(request, env) ==
    IF env.transportOk THEN Ok("response", env.status) ELSE Err("Http", 0)

(***************************************************************************)
(* crate::map_github_error: the error classifier.                          *)
(***************************************************************************)
is_success(status) == status >= 200 /\ status <= 299

map_github_error(response) ==
    IF is_success(response.status) THEN response ELSE Err("GitHub", response.status)

(***************************************************************************)
(* The decoders: FromResponse::from_response (JSON) and Response::text.    *)
(***************************************************************************)
from_response(response, env) ==
    IF env.decodeOk THEN Ok("value", response.status) ELSE Err("Json", response.status)

text(response, env) ==
    IF env.decodeOk THEN Ok("text", response.status) ELSE Err("Http", response.status)

(***************************************************************************)
(* The outcome of one invocation: the request handed to the transport (if  *)
(* one was assembled), the result returned to the caller and the           *)
(* collaborators called, in order.                                         *)
(***************************************************************************)
Outcome(request, result, calls) ==
    [request |-> request, result |-> result, calls |-> calls]

(***************************************************************************)
(* Octocrab::_get and Octocrab::_put: a request with no post-processing.   *)
(* The response is returned as the transport delivered it, whatever its    *)
(* status.                                                                 *)
(***************************************************************************)
_get(url, parameters, env) ==
    LET request == IF IsSome(parameters)
                   THEN query(client_request("GET", url), parameters[1])
                   ELSE client_request("GET", url)
    IN  Outcome(Some(request), execute(request, env), <<"execute">>)

_put(url, body, env) ==
    LET request == IF IsSome(body)
                   THEN json(client_request("PUT", url), body[1])
                   ELSE client_request("PUT", url)
    IN  Outcome(Some(request), execute(request, env), <<"execute">>)

(***************************************************************************)
(* send_json with a retry: a transport failure is answered by asking the   *)
(* transport once more.                                                    *)
(***************************************************************************)
send_json_retry(request, calls, env) ==
    LET sent == execute(request, env) IN
    IF ~IsOk(sent)
    THEN Outcome(Some(request), execute(request, env), calls \o <<"execute", "execute">>)
    ELSE LET checked == map_github_error(sent) IN
         IF ~IsOk(checked)
         THEN Outcome(Some(request), checked, calls \o <<"execute", "map_github_error">>)
         ELSE Outcome(Some(request), from_response(checked, env),
                      calls \o <<"execute", "map_github_error", "from_response">>)

(***************************************************************************)
(* The response chain shared by the request builder primitives:            *)
(*   R::from_response(map_github_error(execute(request).await?).await?)    *)
(* Each `?` returns the error at hand and skips what follows.              *)
(***************************************************************************)
send_json(request, calls, env) ==
    LET sent == execute(request, env) IN
    IF ~IsOk(sent)
    THEN Outcome(Some(request), sent, calls \o <<"execute">>)
    ELSE LET checked == map_github_error(sent) IN
         IF ~IsOk(checked)
         THEN Outcome(Some(request), checked, calls \o <<"execute", "map_github_error">>)
         ELSE Outcome(Some(request), from_response(checked, env),
                      calls \o <<"execute", "map_github_error", "from_response">>)

(***************************************************************************)
(* Octocrab::post: the client's own POST.  It is given the route and the   *)
(* body only, so the request carries nothing of the handler's state.       *)
(***************************************************************************)
post(route, body, env) ==
    LET url == absolute_url(route, env) IN
    IF ~IsOk(url)
    THEN Outcome(None, url, <<"absolute_url">>)
    ELSE LET request == IF IsSome(body)
                        THEN json(client_request("POST", url.val), body[1])
                        ELSE client_request("POST", url.val)
         IN  send_json(request, <<"absolute_url">>, env)

(***************************************************************************)
(* serde_json::Map: a function from keys to values.                        *)
(***************************************************************************)
Map_new == [k \in {} |-> <<>>]

insert(map, key, value) ==
    [k \in (DOMAIN map) \cup {key} |-> IF k = key THEN value ELSE map[k]]

(***************************************************************************)
(* PullRequestHandler::new and PullRequestHandler::media_type.             *)
(***************************************************************************)
new(owner, repo) == [owner |-> owner, repo |-> repo, media_type |-> None]

media_type(self, v) == [self EXCEPT !.media_type = Some(v)]

(***************************************************************************)
(* is_merged with the response classified before its status is read.      *)
(***************************************************************************)
is_merged_classified(self, pr, env) ==
    LET route == <<"repos", self.owner, self.repo, "pulls", ToString(pr), "merge">>
        url == absolute_url(route, env)
    IN  IF ~IsOk(url)
        THEN Outcome(None, url, <<"absolute_url">>)
        ELSE LET got == _get(url.val, None, env)
                 calls == <<"absolute_url">> \o got.calls
             IN  IF ~IsOk(got.result)
                 THEN Outcome(got.request, got.result, calls)
                 ELSE LET checked == map_github_error(got.result) IN
                      IF ~IsOk(checked)
                      THEN Outcome(got.request, checked, calls \o <<"map_github_error">>)
                      ELSE Outcome(got.request,
                                   Ok(Bool(checked.status = 204), checked.status),
                                   calls \o <<"map_github_error">>)

(***************************************************************************)
(* PullRequestHandler::is_merged                                           *)
(***************************************************************************)
is_merged(self, pr, env) ==
    LET route == <<"repos", self.owner, self.repo, "pulls", ToString(pr), "merge">>
        url == absolute_url(route, env)
    IN  IF ~IsOk(url)
        THEN Outcome(None, url, <<"absolute_url">>)
        ELSE LET got == _get(url.val, None, env)
                 calls == <<"absolute_url">> \o got.calls
             IN  IF ~IsOk(got.result)
                 THEN Outcome(got.request, got.result, calls)
                 ELSE Outcome(got.request,
                              Ok(Bool(got.result.status = 204), got.result.status),
                              calls)

(***************************************************************************)
(* update_branch sending the PUT although the route did not resolve, and   *)
(* update_branch comparing the status with 204.                            *)
(***************************************************************************)
update_branch_unresolved(self, pr, env) ==
    LET route == <<"repos", self.owner, self.repo, "pulls", ToString(pr), "update-branch">>
        url == absolute_url(route, env)
        put == _put(IF IsOk(url) THEN url.val ELSE route, None, env)
        calls == <<"absolute_url">> \o put.calls
    IN  IF ~IsOk(put.result)
        THEN Outcome(put.request, put.result, calls)
        ELSE Outcome(put.request,
                     Ok(Bool(put.result.status = 202), put.result.status),
                     calls)

update_branch_204(self, pr, env) ==
    LET route == <<"repos", self.owner, self.repo, "pulls", ToString(pr), "update-branch">>
        url == absolute_url(route, env)
    IN  IF ~IsOk(url)
        THEN Outcome(None, url, <<"absolute_url">>)
        ELSE LET put == _put(url.val, None, env)
                 calls == <<"absolute_url">> \o put.calls
             IN  IF ~IsOk(put.result)
                 THEN Outcome(put.request, put.result, calls)
                 ELSE Outcome(put.request,
                              Ok(Bool(put.result.status = 204), put.result.status),
                              calls)

(***************************************************************************)
(* PullRequestHandler::update_branch                                       *)
(***************************************************************************)
update_branch(self, pr, env) ==
    LET route == <<"repos", self.owner, self.repo, "pulls", ToString(pr), "update-branch">>
        url == absolute_url(route, env)
    IN  IF ~IsOk(url)
        THEN Outcome(None, url, <<"absolute_url">>)
        ELSE LET put == _put(url.val, None, env)
                 calls == <<"absolute_url">> \o put.calls
             IN  IF ~IsOk(put.result)
                 THEN Outcome(put.request, put.result, calls)
                 ELSE Outcome(put.request,
                              Ok(Bool(put.result.status = 202), put.result.status),
                              calls)

(***************************************************************************)
(* The request builder primitives.                                         *)
(***************************************************************************)
build_request_default(self, request, body) ==
    LET with_body == IF IsSome(body) THEN json(request, body[1]) ELSE request
    IN  IF IsSome(self.media_type)
        THEN header(with_body, ACCEPT, format_media_type(to_string(self.media_type[1])))
        ELSE header(with_body, ACCEPT, format_media_type(to_string("Regular")))

build_request(self, request, body) ==
    LET with_body == IF IsSome(body) THEN json(request, body[1]) ELSE request
    IN  IF IsSome(self.media_type)
        THEN header(with_body, ACCEPT, format_media_type(to_string(self.media_type[1])))
        ELSE with_body

http_get(self, route, parameters, env) ==
    LET url == absolute_url(route, env) IN
    IF ~IsOk(url)
    THEN Outcome(None, url, <<"absolute_url">>)
    ELSE LET request0 == client_request("GET", url.val)
             request1 == IF IsSome(parameters) THEN query(request0, parameters[1])
                         ELSE request0
             request == IF IsSome(self.media_type)
                        THEN header(request1, ACCEPT,
                                    format_media_type(to_string(self.media_type[1])))
                        ELSE request1
         IN  send_json(request, <<"absolute_url">>, env)

http_post(self, route, body, env) ==
    LET url == absolute_url(route, env) IN
    IF ~IsOk(url)
    THEN Outcome(None, url, <<"absolute_url">>)
    ELSE send_json(build_request(self, client_request("POST", url.val), body),
                   <<"absolute_url">>, env)

http_put(self, route, body, env) ==
    LET url == absolute_url(route, env) IN
    IF ~IsOk(url)
    THEN Outcome(None, url, <<"absolute_url">>)
    ELSE send_json(build_request(self, client_request("PUT", url.val), body),
                   <<"absolute_url">>, env)

http_patch(self, route, body, env) ==
    LET url == absolute_url(route, env) IN
    IF ~IsOk(url)
    THEN Outcome(None, url, <<"absolute_url">>)
    ELSE send_json(build_request(self, client_request("PATCH", url.val), body),
                   <<"absolute_url">>, env)

(***************************************************************************)
(* PullRequestHandler::get, list_reviews, list_files                       *)
(***************************************************************************)
get(self, pr, env) ==
    http_get(self, <<"repos", self.owner, self.repo, "pulls", ToString(pr)>>, None, env)

list_reviews(self, pr, env) ==
    http_get(self, <<"repos", self.owner, self.repo, "pulls", ToString(pr), "reviews">>,
             None, env)

list_files(self, pr, env) ==
    http_get(self, <<"repos", self.owner, self.repo, "pulls", ToString(pr), "files">>,
             None, env)

(***************************************************************************)
(* PullRequestHandler::get_diff and get_patch                              *)
(***************************************************************************)
get_diff_configured(self, pr, env) ==
    LET route == <<"repos", self.owner, self.repo, "pulls", ToString(pr)>>
        url == absolute_url(route, env)
    IN  IF ~IsOk(url)
        THEN Outcome(None, url, <<"absolute_url">>)
        ELSE LET variant == IF IsSome(self.media_type)
                            THEN to_string(self.media_type[1]) ELSE "diff"
                 request == header(client_request("GET", url.val), ACCEPT,
                                   format_media_type(variant))
                 sent == execute(request, env)
             IN  IF ~IsOk(sent)
                 THEN Outcome(Some(request), sent, <<"absolute_url", "execute">>)
                 ELSE LET response == map_github_error(sent) IN
                      IF ~IsOk(response)
                      THEN Outcome(Some(request), response,
                                   <<"absolute_url", "execute", "map_github_error">>)
                      ELSE Outcome(Some(request), text(response, env),
                                   <<"absolute_url", "execute", "map_github_error", "text">>)

get_diff(self, pr, env) ==
    LET route == <<"repos", self.owner, self.repo, "pulls", ToString(pr)>>
        url == absolute_url(route, env)
    IN  IF ~IsOk(url)
        THEN Outcome(None, url, <<"absolute_url">>)
        ELSE LET request == header(client_request("GET", url.val), ACCEPT,
                                   format_media_type("diff"))
                 sent == execute(request, env)
             IN  IF ~IsOk(sent)
                 THEN Outcome(Some(request), sent, <<"absolute_url", "execute">>)
                 ELSE LET response == map_github_error(sent) IN
                      IF ~IsOk(response)
                      THEN Outcome(Some(request), response,
                                   <<"absolute_url", "execute", "map_github_error">>)
                      ELSE Outcome(Some(request), text(response, env),
                                   <<"absolute_url", "execute", "map_github_error", "text">>)

get_patch_unclassified(self, pr, env) ==
    LET route == <<"repos", self.owner, self.repo, "pulls", ToString(pr)>>
        url == absolute_url(route, env)
    IN  IF ~IsOk(url)
        THEN Outcome(None, url, <<"absolute_url">>)
        ELSE LET request == header(client_request("GET", url.val), ACCEPT,
                                   format_media_type("patch"))
                 sent == execute(request, env)
             IN  IF ~IsOk(sent)
                 THEN Outcome(Some(request), sent, <<"absolute_url", "execute">>)
                 ELSE Outcome(Some(request), text(sent, env),
                              <<"absolute_url", "execute", "text">>)

get_patch(self, pr, env) ==
    LET route == <<"repos", self.owner, self.repo, "pulls", ToString(pr)>>
        url == absolute_url(route, env)
    IN  IF ~IsOk(url)
        THEN Outcome(None, url, <<"absolute_url">>)
        ELSE LET request == header(client_request("GET", url.val), ACCEPT,
                                   format_media_type("patch"))
                 sent == execute(request, env)
             IN  IF ~IsOk(sent)
                 THEN Outcome(Some(request), sent, <<"absolute_url", "execute">>)
                 ELSE LET response == map_github_error(sent) IN
                      IF ~IsOk(response)
                      THEN Outcome(Some(request), response,
                                   <<"absolute_url", "execute", "map_github_error">>)
                      ELSE Outcome(Some(request), text(response, env),
                                   <<"absolute_url", "execute", "map_github_error", "text">>)

(***************************************************************************)
(* PullRequestHandler::request_reviews                                     *)
(***************************************************************************)
request_reviews_nonempty(self, pr, reviewers, team_reviewers, env) ==
    LET url == <<"repos", self.owner, self.repo, "pulls", ToString(pr),
                 "requested_reviewers">>
        map1 == IF reviewers = <<>> THEN Map_new
                ELSE insert(Map_new, "reviewers", reviewers)
        map == IF team_reviewers = <<>> THEN map1
               ELSE insert(map1, "team_reviewers", team_reviewers)
    IN  post(url, Some(map), env)

request_reviews(self, pr, reviewers, team_reviewers, env) ==
    LET url == <<"repos", self.owner, self.repo, "pulls", ToString(pr),
                 "requested_reviewers">>
        map == insert(insert(Map_new, "reviewers", reviewers),
                      "team_reviewers", team_reviewers)
    IN  post(url, Some(map), env)

(***************************************************************************)
(* The state: the handle the caller holds, the invocation the caller has   *)
(* just awaited (NoInvocation once its result is taken), and the number of *)
(* invocations made, routes resolved and requests the transport was asked  *)
(* to execute.                                                             *)
(***************************************************************************)
NoEnv == [urlOk |-> FALSE, transportOk |-> FALSE, status |-> 200, decodeOk |-> FALSE]

NoInvocation ==
    [op |-> "none", pr |-> 0, media_type |-> None,
     owner |-> "", repo |-> "",
     reviewers |-> <<>>, team_reviewers |-> <<>>,
     parameters |-> None, body |-> None, route |-> <<>>,
     env |-> NoEnv, request |-> None,
     result |-> Ok("none", 0), calls |-> <<>>]

Init ==
    /\ handle \in {new(owner, repo) : owner \in Owners, repo \in Repos}
    /\ last = NoInvocation
    /\ nInvoked = 0
    /\ nResolved = 0
    /\ nExecuted = 0

Count(calls, name) == Cardinality({i \in DOMAIN calls : calls[i] = name})

Invocation(op, pr, env, out) ==
    [op |-> op, pr |-> pr, media_type |-> handle.media_type,
     owner |-> handle.owner, repo |-> handle.repo,
     reviewers |-> <<>>, team_reviewers |-> <<>>,
     parameters |-> None, body |-> None, route |-> <<>>,
     env |-> env, request |-> out.request,
     result |-> out.result, calls |-> out.calls]

Ready == last.op = "none" /\ nInvoked < MaxCalls

Account(env, out) ==
    /\ nInvoked' = nInvoked + 1
    /\ nResolved' = nResolved + (IF env.urlOk THEN 1 ELSE 0)
    /\ nExecuted' = nExecuted + Count(out.calls, "execute")
    /\ UNCHANGED handle

(***************************************************************************)
(* The inputs a caller can supply.                                         *)
(***************************************************************************)
ReviewerLists == UNION {[1..n -> Names] : n \in 0..MaxReviewers}
Parameters == {None, Some([page |-> "2"])}
Bodies == {None, Some([title |-> "t"])}
Routes == {<<"repos", "owner", "repo", "pulls">>}

(***************************************************************************)
(* The actions: one per operation of the handler.                          *)
(***************************************************************************)
New ==
    /\ last.op = "none"
    /\ \E owner \in Owners, repo \in Repos : handle' = new(owner, repo)
    /\ UNCHANGED <<last, nInvoked, nResolved, nExecuted>>

MediaType ==
    /\ last.op = "none"
    /\ \E v \in MediaTypes : handle' = media_type(handle, v)
    /\ UNCHANGED <<last, nInvoked, nResolved, nExecuted>>

IsMerged ==
    /\ Ready
    /\ \E pr \in Prs, env \in Envs :
           LET out == is_merged(handle, pr, env) IN
           /\ Account(env, out)
           /\ last' = Invocation("is_merged", pr, env, out)

UpdateBranch ==
    /\ Ready
    /\ \E pr \in Prs, env \in Envs :
           LET out == update_branch(handle, pr, env) IN
           /\ Account(env, out)
           /\ last' = Invocation("update_branch", pr, env, out)

Get ==
    /\ Ready
    /\ \E pr \in Prs, env \in Envs :
           LET out == get(handle, pr, env) IN
           /\ Account(env, out)
           /\ last' = Invocation("get", pr, env, out)

GetDiff ==
    /\ Ready
    /\ \E pr \in Prs, env \in Envs :
           LET out == get_diff(handle, pr, env) IN
           /\ Account(env, out)
           /\ last' = Invocation("get_diff", pr, env, out)

GetPatch ==
    /\ Ready
    /\ \E pr \in Prs, env \in Envs :
           LET out == get_patch(handle, pr, env) IN
           /\ Account(env, out)
           /\ last' = Invocation("get_patch", pr, env, out)

ListReviews ==
    /\ Ready
    /\ \E pr \in Prs, env \in Envs :
           LET out == list_reviews(handle, pr, env) IN
           /\ Account(env, out)
           /\ last' = Invocation("list_reviews", pr, env, out)

ListFiles ==
    /\ Ready
    /\ \E pr \in Prs, env \in Envs :
           LET out == list_files(handle, pr, env) IN
           /\ Account(env, out)
           /\ last' = Invocation("list_files", pr, env, out)

RequestReviews ==
    /\ Ready
    /\ \E pr \in Prs, env \in Envs, reviewers \in ReviewerLists,
          team_reviewers \in ReviewerLists :
           LET out == request_reviews(handle, pr, reviewers, team_reviewers, env) IN
           /\ Account(env, out)
           /\ last' = [Invocation("request_reviews", pr, env, out)
                           EXCEPT !.reviewers = reviewers,
                                  !.team_reviewers = team_reviewers]

HttpGet ==
    /\ Ready
    /\ \E route \in Routes, parameters \in Parameters, env \in Envs :
           LET out == http_get(handle, route, parameters, env) IN
           /\ Account(env, out)
           /\ last' = [Invocation("http_get", 0, env, out)
                           EXCEPT !.route = route, !.parameters = parameters]

HttpPost ==
    /\ Ready
    /\ \E route \in Routes, body \in Bodies, env \in Envs :
           LET out == http_post(handle, route, body, env) IN
           /\ Account(env, out)
           /\ last' = [Invocation("http_post", 0, env, out)
                           EXCEPT !.route = route, !.body = body]

HttpPut ==
    /\ Ready
    /\ \E route \in Routes, body \in Bodies, env \in Envs :
           LET out == http_put(handle, route, body, env) IN
           /\ Account(env, out)
           /\ last' = [Invocation("http_put", 0, env, out)
                           EXCEPT !.route = route, !.body = body]

HttpPatch ==
    /\ Ready
    /\ \E route \in Routes, body \in Bodies, env \in Envs :
           LET out == http_patch(handle, route, body, env) IN
           /\ Account(env, out)
           /\ last' = [Invocation("http_patch", 0, env, out)
                           EXCEPT !.route = route, !.body = body]

(***************************************************************************)
(* The caller takes the result of the call it awaited and goes on.         *)
(***************************************************************************)
Return ==
    /\ last.op # "none"
    /\ last' = NoInvocation
    /\ UNCHANGED <<handle, nInvoked, nResolved, nExecuted>>

Next ==
    \/ New
    \/ MediaType
    \/ IsMerged
    \/ UpdateBranch
    \/ Get
    \/ GetDiff
    \/ GetPatch
    \/ ListReviews
    \/ ListFiles
    \/ RequestReviews
    \/ HttpGet
    \/ HttpPost
    \/ HttpPut
    \/ HttpPatch
    \/ Return

Spec == Init /\ [][Next]_vars

(***************************************************************************)
(* Vocabulary of the properties.                                           *)
(***************************************************************************)
Delivered == last.env.urlOk /\ last.env.transportOk

Built == IsSome(last.request)

AcceptOf(v) == <<ACCEPT, format_media_type(to_string(v))>>

PullUrl(tail) ==
    <<BaseUrl, "repos", last.owner, last.repo, "pulls", ToString(last.pr)>> \o tail

Decoders == {"from_response", "text"}

Decoded == \E i \in DOMAIN last.calls : last.calls[i] \in Decoders

Pipeline == <<"absolute_url", "execute", "map_github_error">>

JsonOps == {"get", "list_reviews", "list_files", "http_get", "http_post", "http_put",
            "http_patch"}
TextOps == {"get_diff", "get_patch"}
FlagOps == {"is_merged", "update_branch"}

(***************************************************************************)
(* C1: is_merged returns Ok(true) for a 204 response and Ok(false), not an *)
(* error, for a 404 response; in both cases no decoder is invoked.         *)
(***************************************************************************)
C1_IsMergedFromStatus ==
    (last.op = "is_merged" /\ Delivered /\ last.env.status \in {204, 404}) =>
        /\ last.result = Ok(Bool(last.env.status = 204), last.env.status)
        /\ ~Decoded
        /\ last.calls = <<"absolute_url", "execute">>

C1_Witness ==
    /\ last.op = "is_merged"
    /\ Delivered
    /\ last.env.status = 404
    /\ last.result = Ok("false", 404)

(***************************************************************************)
(* C2 as stated: update_branch returns Ok(true) when the PUT is answered   *)
(* with status 204.                                                        *)
(***************************************************************************)
C2_Original ==
    (last.op = "update_branch" /\ Delivered /\ last.env.status = 204) =>
        last.result = Ok("true", 204)

(***************************************************************************)
(* C2 amended: update_branch returns Ok(true) when the PUT to              *)
(* repos/{owner}/{repo}/pulls/{pr}/update-branch is answered with status   *)
(* 202; a 204 answer yields Ok(false).                                     *)
(***************************************************************************)
C2_UpdateBranchAccepted ==
    (last.op = "update_branch" /\ Delivered) =>
        /\ last.request[1].method = "PUT"
        /\ last.request[1].url = PullUrl(<<"update-branch">>)
        /\ (last.env.status = 202 => last.result = Ok("true", 202))
        /\ (last.env.status = 204 => last.result = Ok("false", 204))

C2_Witness ==
    /\ last.op = "update_branch"
    /\ Delivered
    /\ last.env.status = 202
    /\ last.result = Ok("true", 202)

(***************************************************************************)
(* C3: is_merged and update_branch return an error, never Ok(false) or     *)
(* Ok(true), for a response whose status is neither the success status nor *)
(* the companion status, such as 401, 403 or 500.                          *)
(***************************************************************************)
C3_UndocumentedStatusIsError ==
    (last.op \in FlagOps /\ Delivered /\ last.env.status \in {401, 403, 500}) =>
        last.result.tag = "Err"

(***************************************************************************)
(* C4: whatever the handle's media type, get_diff sends GET                *)
(* repos/{owner}/{repo}/pulls/{pr} with the ACCEPT header of "diff" and    *)
(* get_patch the same with the ACCEPT header of "patch"; the configured    *)
(* media type does not appear in the request.                              *)
(***************************************************************************)
C4_ForcedAccept ==
    (last.op \in TextOps /\ last.env.urlOk) =>
        LET forced == IF last.op = "get_diff" THEN "diff" ELSE "patch" IN
        /\ last.request =
               Some([method |-> "GET", url |-> PullUrl(<<>>),
                     headers |-> << <<ACCEPT, format_media_type(forced)>> >>,
                     query |-> None, body |-> None])
        /\ \A v \in MediaTypes :
               (last.media_type = Some(v) /\ to_string(v) # forced) =>
                   \A i \in DOMAIN last.request[1].headers :
                       last.request[1].headers[i] # AcceptOf(v)

C4_Witness ==
    /\ last.op = "get_diff"
    /\ last.media_type = Some("Patch")
    /\ Built
    /\ last.request[1].headers = << <<ACCEPT, format_media_type("diff")>> >>

(***************************************************************************)
(* C5: a request assembled by http_get, http_post, http_put or http_patch  *)
(* carries an ACCEPT header exactly when the handle's media type is set at *)
(* the call, with the value derived from it, and none on a handle fresh    *)
(* from new(); query parameters and the JSON body are attached exactly     *)
(* when supplied.                                                          *)
(***************************************************************************)
C5_HeaderOnlyIfSet ==
    (last.op \in {"http_get", "http_post", "http_put", "http_patch"} /\ last.env.urlOk) =>
        /\ Built
        /\ last.request[1].method =
               (CASE last.op = "http_get" -> "GET"
                  [] last.op = "http_post" -> "POST"
                  [] last.op = "http_put" -> "PUT"
                  [] last.op = "http_patch" -> "PATCH")
        /\ last.request[1].url = <<BaseUrl>> \o last.route
        /\ last.request[1].headers =
               (IF IsSome(last.media_type) THEN <<AcceptOf(last.media_type[1])>>
                ELSE <<>>)
        /\ last.request[1].query = last.parameters
        /\ last.request[1].body = last.body

C5_Witness ==
    /\ last.op = "http_patch"
    /\ last.media_type = None
    /\ IsSome(last.body)
    /\ Built
    /\ last.request[1].headers = <<>>
    /\ last.request[1].body = last.body

(***************************************************************************)
(* C6: the body request_reviews posts to                                   *)
(* repos/{owner}/{repo}/pulls/{pr}/requested_reviewers is an object with   *)
(* exactly the keys reviewers and team_reviewers, each the supplied list   *)
(* in the supplied order, also when a list is empty.                       *)
(***************************************************************************)
C6_ReviewBodyHasBothKeys ==
    (last.op = "request_reviews" /\ last.env.urlOk) =>
        /\ Built
        /\ last.request[1].method = "POST"
        /\ last.request[1].url = PullUrl(<<"requested_reviewers">>)
        /\ IsSome(last.request[1].body)
        /\ DOMAIN last.request[1].body[1] = {"reviewers", "team_reviewers"}
        /\ last.request[1].body[1]["reviewers"] = last.reviewers
        /\ last.request[1].body[1]["team_reviewers"] = last.team_reviewers

C6_Witness ==
    /\ last.op = "request_reviews"
    /\ last.reviewers = <<>>
    /\ last.team_reviewers = <<"user1", "team1">>
    /\ Built
    /\ DOMAIN last.request[1].body[1] = {"reviewers", "team_reviewers"}

(***************************************************************************)
(* C7: once media_type(v) is set, every request issued by get,             *)
(* list_reviews, list_files and request_reviews carries the ACCEPT header  *)
(* of v.                                                                   *)
(***************************************************************************)
C7_DirectOpsCarryMediaType ==
    (/\ last.op \in {"get", "list_reviews", "list_files", "request_reviews"}
     /\ IsSome(last.media_type)
     /\ Built) =>
        last.request[1].headers = <<AcceptOf(last.media_type[1])>>

(***************************************************************************)
(* C8: an operation through http_get, http_post, http_put, http_patch,     *)
(* get_diff or get_patch processes the response in the order execute,      *)
(* classifier, decoder and stops at the first failure: a transport failure *)
(* is returned with neither classifier nor decoder called, a non-success   *)
(* status is returned as the classifier's error with no decoder called,    *)
(* the decoder runs only after the classifier accepted the response, and a *)
(* decoder failure is returned as an error.                                *)
(***************************************************************************)
C8_ExecuteClassifyDecode ==
    (last.op \in JsonOps \cup TextOps /\ last.env.urlOk) =>
        LET decoder == IF last.op \in TextOps THEN "text" ELSE "from_response" IN
        /\ ~last.env.transportOk =>
               /\ last.result = Err("Http", 0)
               /\ last.calls = <<"absolute_url", "execute">>
        /\ (last.env.transportOk /\ ~is_success(last.env.status)) =>
               /\ last.result = Err("GitHub", last.env.status)
               /\ last.calls = Pipeline
        /\ (last.env.transportOk /\ is_success(last.env.status)) =>
               /\ last.calls = Pipeline \o <<decoder>>
               /\ last.result.tag = (IF last.env.decodeOk THEN "Ok" ELSE "Err")
        /\ \A i \in DOMAIN last.calls :
               last.calls[i] \in Decoders =>
                   /\ i = Len(last.calls)
                   /\ i > 1
                   /\ last.calls[i - 1] = "map_github_error"
                   /\ is_success(last.env.status)

C8_Witness ==
    /\ last.op = "get_diff"
    /\ Delivered
    /\ last.env.status = 500
    /\ last.env.decodeOk
    /\ last.result = Err("GitHub", 500)
    /\ ~Decoded

(***************************************************************************)
(* C9: when base-URL resolution of the route fails, the operation returns  *)
(* that error and the transport is never asked to execute; the transport   *)
(* is asked only after the route resolved.                                 *)
(***************************************************************************)
C9_ResolveBeforeExecute ==
    (last.op \in FlagOps \cup JsonOps \cup TextOps) =>
        /\ ~last.env.urlOk =>
               /\ last.result = Err("Url", 0)
               /\ last.calls = <<"absolute_url">>
               /\ ~Built
        /\ \A i \in DOMAIN last.calls :
               last.calls[i] = "execute" =>
                   /\ last.env.urlOk
                   /\ i > 1
                   /\ last.calls[1] = "absolute_url"

C9_Witness ==
    /\ last.op = "update_branch"
    /\ ~last.env.urlOk
    /\ last.env.transportOk
    /\ last.result = Err("Url", 0)
    /\ nExecuted = 0

====
